---- MODULE Spec2Model ----
(***************************************************************************)
(* A model of the script core of sapio:                                    *)
(*   - CScriptNum.encode / CScriptNum.decode      (sapio_bitcoinlib)       *)
(*   - CScript construction, raw_iter and cooked iteration                 *)
(*   - CScript.GetSigOpCount and FindAndDelete                             *)
(*   - ConditionStack, handle and interpret       (bitcoin_script_compiler)*)
(* Byte strings are sequences of 0..255.  Python's 0-based position i of   *)
(* a byte string s is s[i+1] here.                                         *)
(***************************************************************************)
EXTENDS Integers, Sequences, FiniteSets, TLC

VARIABLES
    pc,                    \* position of the running operation
    value,                 \* argument of CScript.__new__
    script,                \* the CScript (bytes)
    i,                     \* raw_iter: read position at the top of its loop
    raw,                   \* tuples yielded so far by raw_iter
    cooked,                \* values yielded so far by __iter__
    err,                   \* exception raised ("none" when none)
    errdata,               \* CScriptTruncatedPushDataError.data
    num_n,                 \* CScriptNum.value given to encode
    num_enc,               \* result of CScriptNum.encode
    num_dec,               \* result of CScriptNum.decode
    num_vch,               \* a stack byte string given to CScriptNum.decode
    num_enc2,              \* result of decoding and encoding num_enc once more
    stack_size,            \* ConditionStack.stack_size
    first_false_position,  \* ConditionStack.first_false_position
    bools,                 \* explicit stack of booleans run beside ConditionStack
    called,                \* the ConditionStack method called last ("none" at first)
    raised,                \* the last ConditionStack call raised ConditionStackError
    stack,                 \* interpret: the execution stack
    result,                \* interpret: returned value ("running" until it returns)
    stack0,                \* the execution stack at the entry of the last handle call
    cs0,                   \* the ConditionStack at the entry of the last handle call
    fAccurate,             \* GetSigOpCount: argument
    n,                     \* GetSigOpCount: counter
    lastOpcode,            \* GetSigOpCount: previous opcode
    sig,                   \* FindAndDelete: argument
    r,                     \* FindAndDelete: result bytes
    last_sop_idx,          \* FindAndDelete: local
    sop_idx,               \* FindAndDelete: local
    skip                   \* FindAndDelete: local

iterVars == <<value, script, i, raw, cooked, err, errdata>>
numVars == <<num_n, num_enc, num_dec, num_vch, num_enc2>>
condVars == <<stack_size, first_false_position, bools, called, raised>>
interpVars == <<stack, result, stack0, cs0>>
sigopVars == <<fAccurate, n, lastOpcode>>
fadVars == <<sig, r, last_sop_idx, sop_idx, skip>>
vars == <<pc, iterVars, numVars, condVars, interpVars, sigopVars, fadVars>>

-----------------------------------------------------------------------------
\* Bounds of the model.

\* CScriptNum inputs range over -MaxNum..MaxNum and around +-2^k, k <= MaxBits
\* (encodings of up to three bytes, which decode within the model's integers).
MaxNum == 300
MaxBits == 21
\* Longest byte string given to CScript.__new__ as raw bytes.
MaxLen == 4
\* Longest sequence of coercible values given to CScript.__new__.
MaxItems == 3
\* Deepest nesting driven on a ConditionStack.
MaxDepth == 6
\* Longest script and longest pattern given to FindAndDelete.
MaxFadLen == 3
MaxSig == 2

-----------------------------------------------------------------------------
\* Opcode byte values.

OP_0 == 0
OP_PUSHDATA1 == 76
OP_PUSHDATA2 == 77
OP_PUSHDATA4 == 78
OP_1NEGATE == 79
OP_1 == 81
OP_2 == 82
OP_16 == 96
OP_NOP == 97
OP_IF == 99
OP_NOTIF == 100
OP_ELSE == 103
OP_ENDIF == 104
OP_VERIFY == 105
OP_IFDUP == 115
OP_DROP == 117
OP_DUP == 118
OP_EQUALVERIFY == 136
OP_1SUB == 140
OP_WITHIN == 165
OP_SHA256 == 168
OP_CHECKSIG == 172
OP_CHECKSIGVERIFY == 173
OP_CHECKMULTISIG == 174
OP_CHECKMULTISIGVERIFY == 175
OP_CHECKLOCKTIMEVERIFY == 177
OP_CHECKSEQUENCEVERIFY == 178
OP_CHECKTEMPLATEVERIFY == 179
OP_INVALIDOPCODE == 255

\* ConditionStack.NO_FALSE.  The source sets it to max_uint32 = 2^32 - 1; the
\* model's integers end at 2^31 - 1, which like the source's value lies above
\* every depth a run can reach.
NO_FALSE == 2147483647

-----------------------------------------------------------------------------
\* Helpers for byte strings.

Min(a, b) == IF a < b THEN a ELSE b

\* Python's s[a:b] for 0 <= a <= b: positions a .. b-1, cut at the end of s.
Slice(s, a, b) == SubSeq(s, a + 1, Min(b, Len(s)))

\* Sequences over S of length 0..k.
SeqsUpTo(S, k) == UNION {[1..m -> S] : m \in 0..k}

RECURSIVE Pow2(_)
Pow2(k) == IF k = 0 THEN 1 ELSE 2 * Pow2(k - 1)

-----------------------------------------------------------------------------
\* CScriptNum

\* The loop "while absvalue: r.append(absvalue & 0xFF); absvalue >>= 8".
RECURSIVE magnitude_bytes(_)
magnitude_bytes(absvalue) ==
    IF absvalue = 0 THEN <<>>
    ELSE <<absvalue % 256>> \o magnitude_bytes(absvalue \div 256)

\* Faulty variant of encode: the sign bit is always folded into the last magnitude
\* byte, also when that byte's top bit is taken.
encode_no_sign_byte(v) ==
    IF v = 0 THEN <<>>
    ELSE LET neg == v < 0
             absvalue == IF neg THEN -v ELSE v
             rr == magnitude_bytes(absvalue)
             last == rr[Len(rr)]
             r2 == IF neg /\ last < 128 THEN [rr EXCEPT ![Len(rr)] = last + 128]
                   ELSE rr
         IN <<Len(r2)>> \o r2

\* CScriptNum.encode(obj), v = obj.value.
encode(v) ==
    IF v = 0 THEN <<>>
    ELSE LET neg == v < 0
             absvalue == IF neg THEN -v ELSE v
             rr == magnitude_bytes(absvalue)
             last == rr[Len(rr)]
             r2 == IF last >= 128 THEN Append(rr, IF neg THEN 128 ELSE 0)
                   ELSE IF neg THEN [rr EXCEPT ![Len(rr)] = last + 128]
                   ELSE rr
         IN <<Len(r2)>> \o r2

\* "for i, byte in enumerate(value): result |= int(byte) << 8 * i".
RECURSIVE little_endian(_)
little_endian(bs) ==
    IF Len(bs) = 0 THEN 0 ELSE bs[1] + 256 * little_endian(Tail(bs))

\* Faulty variant of decode: the sign bit is left in the magnitude.
decode_keeps_sign_bit(vch) ==
    LET val == Slice(vch, 1, Len(vch))
        res == little_endian(val)
    IN IF Len(val) = 0 THEN 0
       ELSE IF val[Len(val)] >= 128 THEN -1 * res ELSE res

\* CScriptNum.decode(vch).
decode(vch) ==
    LET val == Slice(vch, 1, Len(vch))
        res == little_endian(val)
    IN IF Len(val) = 0 THEN 0
       ELSE IF val[Len(val)] >= 128
            THEN -1 * (res % Pow2(Len(val) * 8 - 1))
            ELSE res

-----------------------------------------------------------------------------
\* Idle values of the variables an operation does not use.

IterIdle ==
    /\ value = [kind |-> "bytes", b |-> <<>>, items |-> <<>>]
    /\ script = <<>> /\ i = 0 /\ raw = <<>> /\ cooked = <<>>
    /\ err = "none" /\ errdata = <<>>
NumIdle ==
    /\ num_n = 0 /\ num_enc = <<>> /\ num_dec = 0
    /\ num_vch = <<>> /\ num_enc2 = <<>>
CondIdle ==
    /\ stack_size = 0 /\ first_false_position = NO_FALSE
    /\ bools = <<>> /\ called = "none" /\ raised = FALSE
InterpIdle ==
    /\ stack = <<>> /\ result = "running"
    /\ stack0 = <<>>
    /\ cs0 = [stack_size |-> 0, first_false_position |-> NO_FALSE]
SigopIdle == fAccurate = FALSE /\ n = 0 /\ lastOpcode = OP_INVALIDOPCODE
FadIdle == sig = <<>> /\ r = <<>> /\ last_sop_idx = 0 /\ sop_idx = 0 /\ skip = TRUE

-----------------------------------------------------------------------------
\* Specification SpecNum: encode a number, then decode the encoding.

NumInputs ==
    (-MaxNum .. MaxNum) \cup
    {s * Pow2(k) + d : s \in {-1, 1}, k \in 8 .. MaxBits, d \in {-1, 0, 1}}

InitNum ==
    /\ pc = "num_start"
    /\ num_n \in NumInputs /\ num_enc = <<>> /\ num_dec = 0
    /\ num_vch = <<>> /\ num_enc2 = <<>>
    /\ IterIdle /\ CondIdle /\ InterpIdle /\ SigopIdle /\ FadIdle

NumEncode ==
    /\ pc = "num_start"
    /\ num_enc' = encode(num_n)
    /\ pc' = "num_encoded"
    /\ UNCHANGED <<num_n, num_dec, num_vch, num_enc2>>
    /\ UNCHANGED <<iterVars, condVars, interpVars, sigopVars, fadVars>>

NumDecode ==
    /\ pc = "num_encoded"
    /\ num_dec' = decode(num_enc)
    /\ pc' = "num_decoded"
    /\ UNCHANGED <<num_n, num_enc, num_vch, num_enc2>>
    /\ UNCHANGED <<iterVars, condVars, interpVars, sigopVars, fadVars>>

NextNum == NumEncode \/ NumDecode

SpecNum == InitNum /\ [][NextNum]_vars

\* C2: for every n of the range, decode(encode(CScriptNum(n))) = n, and the
\* encoding of 0 is the empty byte string.
C2_RoundTrip ==
    /\ pc = "num_decoded" => num_dec = num_n
    /\ (pc \in {"num_encoded", "num_decoded"} /\ num_n = 0) => num_enc = <<>>

\* A value whose top magnitude bit is set was encoded and decoded.
C2_Witness ==
    /\ pc = "num_decoded" /\ num_n = -128
    /\ num_enc = <<2, 128, 128>> /\ num_dec = -128

-----------------------------------------------------------------------------
\* CScriptOp and the values CScript accepts.
\* A value of Python's dynamic types is a record: t is its type, n its number
\* (CScriptOp, int, CScriptNum), b its bytes (bytes, CScript).

OpItem(o) == [t |-> "op", n |-> o, b |-> <<>>]
IntItem(k) == [t |-> "int", n |-> k, b |-> <<>>]
NumItem(k) == [t |-> "num", n |-> k, b |-> <<>>]
BytesItem(x) == [t |-> "bytes", n |-> 0, b |-> x]
ScriptItem(x) == [t |-> "script", n |-> 0, b |-> x]
\* A value of a type __coerce_instance does not know.
OtherItem == [t |-> "other", n |-> 0, b |-> <<>>]

\* CScriptOp.encode_op_pushdata(d); len(d) stays far below 2^32.
encode_op_pushdata(d) ==
    IF Len(d) < 76 THEN <<Len(d)>> \o d
    ELSE IF Len(d) <= 255 THEN <<76, Len(d)>> \o d
    ELSE IF Len(d) <= 65535 THEN <<77, Len(d) % 256, Len(d) \div 256>> \o d
    ELSE <<78, Len(d) % 256, (Len(d) \div 256) % 256,
           (Len(d) \div 65536) % 256, Len(d) \div 16777216>> \o d

\* CScriptOp.encode_op_n(k), for 0 <= k <= 16 (it raises ValueError otherwise).
encode_op_n(k) == IF k = 0 THEN OP_0 ELSE OP_1 + k - 1

\* CScriptOp.decode_op_n raises ValueError.
decode_op_n_raises(self) ==
    /\ self # OP_0
    /\ ~(self = OP_0 \/ (OP_1 <= self /\ self <= OP_16))

\* CScriptOp.decode_op_n when it does not raise.
decode_op_n(self) == IF self = OP_0 THEN 0 ELSE self - OP_1 + 1

\* CScriptOp.is_small_int.
is_small_int(self) == (81 <= self /\ self <= 96) \/ self = 0

\* bignum.bn2vch: the minimal little-endian sign-magnitude bytes of v.
bn2vch(v) == IF v = 0 THEN <<>> ELSE Tail(encode(v))

\* CScript.__coerce_instance raises ValueError.
coerce_raises(other) ==
    other.t \notin {"op", "num", "int", "script", "bytes"}

\* CScript.__coerce_instance(other) when it does not raise.
coerce_instance(other) ==
    CASE other.t = "op" -> <<other.n>>
      [] other.t = "num" -> IF other.n = 0 THEN <<OP_0>> ELSE encode(other.n)
      [] other.t = "int" ->
            IF 0 <= other.n /\ other.n <= 16 THEN <<encode_op_n(other.n)>>
            ELSE IF other.n = -1 THEN <<OP_1NEGATE>>
            ELSE encode_op_pushdata(bn2vch(other.n))
      [] other.t = "script" -> other.b
      [] other.t = "bytes" -> encode_op_pushdata(other.b)

\* b"".join(coerce_iterable(value)).
RECURSIVE join_coerced(_)
join_coerced(items) ==
    IF Len(items) = 0 THEN <<>>
    ELSE coerce_instance(items[1]) \o join_coerced(Tail(items))

\* CScript.__new__(value) raises ValueError: only when an item cannot be coerced.
CScript_new_raises(v) ==
    v.kind = "iterable" /\ \E k \in 1..Len(v.items) : coerce_raises(v.items[k])

\* CScript.__new__(value) when it does not raise.
CScript_new(v) == IF v.kind = "bytes" THEN v.b ELSE join_coerced(v.items)

\* class CScriptTruncatedPushDataError(CScriptInvalidError).
IsCScriptInvalidError(e) ==
    e \in {"CScriptInvalidError", "CScriptTruncatedPushDataError"}

-----------------------------------------------------------------------------
\* CScript.raw_iter and CScript.__iter__

Yield(opcode, hasdata, data, sop, next) ==
    [kind |-> "yield", opcode |-> opcode, hasdata |-> hasdata, data |-> data,
     sop_idx |-> sop, i |-> next]
Raise(kind, data, sop) ==
    [kind |-> kind, opcode |-> 0, hasdata |-> FALSE, data |-> data,
     sop_idx |-> sop, i |-> sop]

\* The length header of a push: ok is FALSE when raw_iter raises "missing data
\* length"; otherwise datasize, and i past the header.
push_header(self, opcode, i1) ==
    IF opcode < OP_PUSHDATA1 THEN [ok |-> TRUE, datasize |-> opcode, i |-> i1]
    ELSE IF opcode = OP_PUSHDATA1 THEN
        IF i1 >= Len(self) THEN [ok |-> FALSE, datasize |-> 0, i |-> i1]
        ELSE [ok |-> TRUE, datasize |-> self[i1 + 1], i |-> i1 + 1]
    ELSE IF opcode = OP_PUSHDATA2 THEN
        IF i1 + 1 >= Len(self) THEN [ok |-> FALSE, datasize |-> 0, i |-> i1]
        ELSE [ok |-> TRUE, datasize |-> self[i1 + 1] + self[i1 + 2] * 256,
              i |-> i1 + 2]
    ELSE
        IF i1 + 3 >= Len(self) THEN [ok |-> FALSE, datasize |-> 0, i |-> i1]
        ELSE [ok |-> TRUE,
              datasize |-> self[i1 + 1] + self[i1 + 2] * 256
                           + self[i1 + 3] * 65536 + self[i1 + 4] * 16777216,
              i |-> i1 + 4]

\* Faulty variant of raw_iter_step: no truncation check, the short slice is yielded.
raw_iter_step_unchecked(self, i0) ==
    LET opcode == self[i0 + 1]
        h == push_header(self, opcode, i0 + 1)
    IN IF opcode > OP_PUSHDATA4 THEN Yield(opcode, FALSE, <<>>, i0, i0 + 1)
       ELSE IF ~h.ok THEN Raise("CScriptInvalidError", <<>>, i0)
       ELSE Yield(opcode, TRUE, Slice(self, h.i, h.i + h.datasize), i0,
                  h.i + h.datasize)

\* Faulty variant of raw_iter_step: a missing length header raises the truncation
\* error too, with empty data.
raw_iter_step_one_error(self, i0) ==
    LET opcode == self[i0 + 1]
        h == push_header(self, opcode, i0 + 1)
        data == Slice(self, h.i, h.i + h.datasize)
    IN IF opcode > OP_PUSHDATA4 THEN Yield(opcode, FALSE, <<>>, i0, i0 + 1)
       ELSE IF ~h.ok THEN Raise("CScriptTruncatedPushDataError", <<>>, i0)
       ELSE IF Len(data) < h.datasize
            THEN Raise("CScriptTruncatedPushDataError", data, i0)
       ELSE Yield(opcode, TRUE, data, i0, h.i + h.datasize)

\* Faulty variant of raw_iter_step: sop_idx is taken after the opcode was read.
raw_iter_step_late_sop(self, i0) ==
    LET opcode == self[i0 + 1]
        h == push_header(self, opcode, i0 + 1)
        data == Slice(self, h.i, h.i + h.datasize)
    IN IF opcode > OP_PUSHDATA4 THEN Yield(opcode, FALSE, <<>>, i0 + 1, i0 + 1)
       ELSE IF ~h.ok THEN Raise("CScriptInvalidError", <<>>, i0)
       ELSE IF Len(data) < h.datasize
            THEN Raise("CScriptTruncatedPushDataError", data, i0)
       ELSE Yield(opcode, TRUE, data, i0 + 1, h.i + h.datasize)

\* Faulty variant of raw_iter_step: the read position is not moved past an
\* opcode that is no push.
raw_iter_step_no_advance(self, i0) ==
    LET opcode == self[i0 + 1]
        h == push_header(self, opcode, i0 + 1)
        data == Slice(self, h.i, h.i + h.datasize)
    IN IF opcode > OP_PUSHDATA4 THEN Yield(opcode, FALSE, <<>>, i0, i0)
       ELSE IF ~h.ok THEN Raise("CScriptInvalidError", <<>>, i0)
       ELSE IF Len(data) < h.datasize
            THEN Raise("CScriptTruncatedPushDataError", data, i0)
       ELSE Yield(opcode, TRUE, data, i0, h.i + h.datasize)

\* One turn of raw_iter's loop from read position i0 < len(self): the tuple it
\* yields and the next read position, or the exception it raises.
raw_iter_step(self, i0) ==
    LET opcode == self[i0 + 1]
        h == push_header(self, opcode, i0 + 1)
        data == Slice(self, h.i, h.i + h.datasize)
    IN IF opcode > OP_PUSHDATA4 THEN Yield(opcode, FALSE, <<>>, i0, i0 + 1)
       ELSE IF ~h.ok THEN Raise("CScriptInvalidError", <<>>, i0)
       ELSE IF Len(data) < h.datasize
            THEN Raise("CScriptTruncatedPushDataError", data, i0)
       ELSE Yield(opcode, TRUE, data, i0, h.i + h.datasize)

\* The tuple (opcode, data, sop_idx); hasdata is "data is not None".
RawTuple(st) ==
    [opcode |-> st.opcode, hasdata |-> st.hasdata, data |-> st.data,
     sop_idx |-> st.sop_idx]

\* The value __iter__ yields for one tuple of raw_iter.
cook(st) ==
    IF st.hasdata THEN BytesItem(st.data)
    ELSE IF is_small_int(st.opcode) THEN IntItem(decode_op_n(st.opcode))
    ELSE OpItem(st.opcode)

-----------------------------------------------------------------------------
\* Specification SpecScript: build a CScript, then iterate it to its end.

\* Bytes of the raw scripts.  PUSHDATA4's length stays within the model's integers.
ScriptBytes == {0, 1, 2, OP_PUSHDATA1, OP_PUSHDATA2, OP_PUSHDATA4, OP_DUP}

Zeros(k) == [j \in 1..k |-> 0]

\* Values the scripts are built from.
BuildOps == {OpItem(OP_NOP), OpItem(OP_DUP), OpItem(OP_EQUALVERIFY), OpItem(OP_CHECKSIG)}
BuildInts == {IntItem(-1), IntItem(0), IntItem(1), IntItem(16)}
BuildBytes == {BytesItem(<<>>), BytesItem(<<7>>), BytesItem(<<1, 2>>), BytesItem(Zeros(76))}
BuildItems == BuildOps \cup BuildInts \cup BuildBytes \cup {OtherItem}

BytesValue(x) == [kind |-> "bytes", b |-> x, items |-> <<>>]
IterableValue(xs) == [kind |-> "iterable", b |-> <<>>, items |-> xs]

InitScript ==
    /\ pc = "new"
    /\ value \in {BytesValue(x) : x \in SeqsUpTo(ScriptBytes, MaxLen)}
                 \cup {IterableValue(xs) : xs \in SeqsUpTo(BuildItems, MaxItems)}
    /\ script = <<>> /\ i = 0 /\ raw = <<>> /\ cooked = <<>>
    /\ err = "none" /\ errdata = <<>>
    /\ NumIdle /\ CondIdle /\ InterpIdle /\ SigopIdle /\ FadIdle

\* script = CScript(value)
CScriptNew ==
    /\ pc = "new"
    /\ IF CScript_new_raises(value)
       THEN /\ err' = "ValueError" /\ pc' = "done"
            /\ UNCHANGED script
       ELSE /\ script' = CScript_new(value) /\ pc' = "iter"
            /\ UNCHANGED err
    /\ UNCHANGED <<value, i, raw, cooked, errdata>>
    /\ UNCHANGED <<numVars, condVars, interpVars, sigopVars, fadVars>>

\* next() on iter(script): one turn of raw_iter's loop and the cooking of its
\* tuple; StopIteration at the end of the bytes.
IterNext ==
    /\ pc = "iter"
    /\ IF i >= Len(script)
       THEN pc' = "done" /\ UNCHANGED <<i, raw, cooked, err, errdata>>
       ELSE LET st == raw_iter_step(script, i)
            IN IF st.kind = "yield"
               THEN /\ raw' = Append(raw, RawTuple(st))
                    /\ cooked' = Append(cooked, cook(st))
                    /\ i' = st.i
                    /\ UNCHANGED <<pc, err, errdata>>
               ELSE /\ err' = st.kind /\ errdata' = st.data /\ pc' = "done"
                    /\ UNCHANGED <<i, raw, cooked>>
    /\ UNCHANGED <<value, script>>
    /\ UNCHANGED <<numVars, condVars, interpVars, sigopVars, fadVars>>

NextScript == CScriptNew \/ IterNext

SpecScript == InitScript /\ [][NextScript]_vars

\* The values C1 speaks of: opcodes that are not push opcodes, the integers
\* -1..16, and byte strings.
C1_Domain(x) ==
    \/ x.t = "op" /\ x.n > OP_16
    \/ x.t = "int" /\ -1 <= x.n /\ x.n <= 16
    \/ x.t = "bytes"

\* C1: building a CScript from a sequence of such values and cooked-iterating
\* it yields the original sequence, element for element.
C1_BuildIterRoundTrip ==
    (/\ pc = "done" /\ value.kind = "iterable"
     /\ \A k \in 1..Len(value.items) : C1_Domain(value.items[k]))
        => (err = "none" /\ cooked = value.items)

\* Size of the opcode and length header of an instruction starting with op.
HeadSize(op) ==
    CASE op = OP_PUSHDATA1 -> 2
      [] op = OP_PUSHDATA2 -> 3
      [] op = OP_PUSHDATA4 -> 5
      [] OTHER -> 1

\* The instruction at position p of s has its length header cut by the end.
HeaderCut(s, p) == p + HeadSize(s[p + 1]) > Len(s)

\* The payload length the (complete) header of the instruction at p declares.
Declared(s, p) ==
    IF s[p + 1] > OP_PUSHDATA4 THEN 0
    ELSE IF s[p + 1] < OP_PUSHDATA1 THEN s[p + 1]
    ELSE little_endian(SubSeq(s, p + 2, p + HeadSize(s[p + 1])))

\* The instruction at p has a complete header and its payload cut by the end.
PayloadCut(s, p) ==
    /\ ~HeaderCut(s, p)
    /\ p + HeadSize(s[p + 1]) + Declared(s, p) > Len(s)

\* Position after the k-th yielded instruction.
EndOf(k) ==
    raw[k].sop_idx + HeadSize(raw[k].opcode) + Declared(script, raw[k].sop_idx)

\* C3: on bytes in which a push's header or payload runs past the end, raw and
\* cooked iteration yield the complete instructions before it, then raise a
\* CScriptInvalidError at it; no yielded payload is shorter than declared; and
\* constructing the CScript from the bytes does not fail.
C3_TruncationRaises ==
    value.kind = "bytes" =>
        /\ err # "ValueError"
        /\ pc # "new" => script = value.b
        /\ Len(cooked) = Len(raw)
        /\ \A k \in 1..Len(raw) :
              /\ raw[k].sop_idx = (IF k = 1 THEN 0 ELSE EndOf(k - 1))
              /\ EndOf(k) <= Len(script)
              /\ raw[k].hasdata =>
                    /\ Len(raw[k].data) = Declared(script, raw[k].sop_idx)
                    /\ cooked[k] = BytesItem(raw[k].data)
        /\ i = (IF Len(raw) = 0 THEN 0 ELSE EndOf(Len(raw)))
        /\ pc = "done" =>
              IF i < Len(script)
              THEN /\ IsCScriptInvalidError(err)
                   /\ HeaderCut(script, i) \/ PayloadCut(script, i)
              ELSE err = "none"

\* A complete instruction was yielded, then the truncated PUSHDATA1 raised.
C3_Witness ==
    /\ pc = "done" /\ script = <<OP_DUP, OP_PUSHDATA1, 2, 1>>
    /\ Len(raw) = 1 /\ Len(cooked) = 1
    /\ err = "CScriptTruncatedPushDataError"

\* C4 as claimed: every structural decode failure, in the length header or in
\* the payload, is the truncation error carrying the partial data.
C4_AlwaysTruncatedPushDataError ==
    (pc = "done" /\ value.kind = "bytes" /\ IsCScriptInvalidError(err))
        => err = "CScriptTruncatedPushDataError"

\* C4 amended: a cut payload raises CScriptTruncatedPushDataError whose data is
\* the part of the payload that is there; a cut length header raises the base
\* CScriptInvalidError, which carries no data.
C4_TruncationErrorKinds ==
    (pc = "done" /\ value.kind = "bytes" /\ IsCScriptInvalidError(err)) =>
        IF HeaderCut(script, i)
        THEN err = "CScriptInvalidError" /\ errdata = <<>>
        ELSE /\ err = "CScriptTruncatedPushDataError"
             /\ errdata = SubSeq(script, i + HeadSize(script[i + 1]) + 1, Len(script))
             /\ Len(errdata) < Declared(script, i)

\* A payload cut after one of its two bytes: the error carries that byte.
C4_Witness ==
    /\ pc = "done" /\ script = <<2, 1>>
    /\ err = "CScriptTruncatedPushDataError" /\ errdata = <<1>>

-----------------------------------------------------------------------------
\* ConditionStack.  cs is the object: [stack_size, first_false_position].

\* ConditionStack.__init__
ConditionStack_init == [stack_size |-> 0, first_false_position |-> NO_FALSE]

\* Faulty variant of empty: the ConditionStack is never seen as empty.
empty_never(cs) == FALSE

\* ConditionStack.empty
empty(cs) == cs.stack_size = 0

\* ConditionStack.all_true
all_true(cs) == cs.first_false_position = NO_FALSE

\* Faulty variant of push_back: the size is incremented before the marker is set.
push_back_marks_late(cs, b) ==
    [stack_size |-> cs.stack_size + 1,
     first_false_position |->
        IF cs.first_false_position = NO_FALSE /\ ~b
        THEN cs.stack_size + 1 ELSE cs.first_false_position]

\* ConditionStack.push_back(b)
push_back(cs, b) ==
    [stack_size |-> cs.stack_size + 1,
     first_false_position |->
        IF cs.first_false_position = NO_FALSE /\ ~b
        THEN cs.stack_size ELSE cs.first_false_position]

\* pop_back and toggle_top raise ConditionStackError.
raises_ConditionStackError(cs) == ~(cs.stack_size > 0)

\* Faulty variant of pop_back: the marker is never reset.
pop_back_keeps_marker(cs) == [cs EXCEPT !.stack_size = cs.stack_size - 1]

\* ConditionStack.pop_back when it does not raise.
pop_back(cs) ==
    [stack_size |-> cs.stack_size - 1,
     first_false_position |->
        IF cs.first_false_position = cs.stack_size - 1
        THEN NO_FALSE ELSE cs.first_false_position]

\* Faulty variant of toggle_top: a false top frame is never turned true again.
toggle_top_no_reset(cs) ==
    IF cs.first_false_position = NO_FALSE
    THEN [cs EXCEPT !.first_false_position = cs.stack_size - 1]
    ELSE cs

\* ConditionStack.toggle_top when it does not raise.
toggle_top(cs) ==
    IF cs.first_false_position = NO_FALSE
    THEN [cs EXCEPT !.first_false_position = cs.stack_size - 1]
    ELSE IF cs.first_false_position = cs.stack_size - 1
    THEN [cs EXCEPT !.first_false_position = NO_FALSE]
    ELSE cs

\* The ConditionStack object held in the variables.
handle_branch ==
    [stack_size |-> stack_size, first_false_position |-> first_false_position]

SetConditionStack(cs) ==
    /\ stack_size' = cs.stack_size
    /\ first_false_position' = cs.first_false_position

-----------------------------------------------------------------------------
\* Specification SpecCond: any sequence of calls on one ConditionStack, with
\* an explicit stack of booleans (bools) driven by the same calls.

InitCond ==
    /\ pc = "cond"
    /\ stack_size = ConditionStack_init.stack_size
    /\ first_false_position = ConditionStack_init.first_false_position
    /\ bools = <<>> /\ called = "none" /\ raised = FALSE
    /\ IterIdle /\ NumIdle /\ InterpIdle /\ SigopIdle /\ FadIdle

CondFrame == UNCHANGED <<pc, iterVars, numVars, interpVars, sigopVars, fadVars>>

PushBack ==
    /\ pc = "cond" /\ stack_size < MaxDepth
    /\ \E b \in BOOLEAN :
          /\ SetConditionStack(push_back(handle_branch, b))
          /\ bools' = Append(bools, b)
    /\ called' = "push_back" /\ raised' = FALSE
    /\ CondFrame

PopBack ==
    /\ pc = "cond"
    /\ called' = "pop_back"
    /\ IF raises_ConditionStackError(handle_branch)
       THEN raised' = TRUE /\ UNCHANGED <<stack_size, first_false_position, bools>>
       ELSE /\ SetConditionStack(pop_back(handle_branch))
            /\ bools' = SubSeq(bools, 1, Len(bools) - 1)
            /\ raised' = FALSE
    /\ CondFrame

ToggleTop ==
    /\ pc = "cond"
    /\ called' = "toggle_top"
    /\ IF raises_ConditionStackError(handle_branch)
       THEN raised' = TRUE /\ UNCHANGED <<stack_size, first_false_position, bools>>
       ELSE /\ SetConditionStack(toggle_top(handle_branch))
            /\ bools' = [bools EXCEPT ![Len(bools)] = ~bools[Len(bools)]]
            /\ raised' = FALSE
    /\ CondFrame

NextCond == PushBack \/ PopBack \/ ToggleTop

SpecCond == InitCond /\ [][NextCond]_vars

\* C5: after any sequence of push_back / toggle_top / pop_back, all_true()
\* equals the conjunction of the booleans on the explicit stack, and
\* stack_size equals its length.
C5_Refinement ==
    /\ all_true(handle_branch) = (\A k \in 1..Len(bools) : bools[k])
    /\ stack_size = Len(bools)

\* The top frame was toggled over a false frame: the marker stays on the false
\* frame.
C5_Witness ==
    /\ called = "toggle_top" /\ ~raised
    /\ bools = <<TRUE, FALSE, TRUE>>
    /\ stack_size = 3 /\ first_false_position = 1 /\ ~all_true(handle_branch)

\* C6: in every reachable state, failed calls included, first_false_position
\* is NO_FALSE or lies below stack_size, and stack_size is not negative.
C6_MarkerBelowSize ==
    /\ stack_size >= 0
    /\ \/ first_false_position = NO_FALSE
       \/ (0 <= first_false_position /\ first_false_position < stack_size)

\* pop_back failed on the empty ConditionStack and left it as it was.
C6_Witness ==
    /\ called = "pop_back" /\ raised
    /\ stack_size = 0 /\ first_false_position = NO_FALSE

-----------------------------------------------------------------------------
\* handle and interpret.  The execution stack is a sequence, its top last.

\* bool_of_stack_item(v): the first non-zero byte decides.
RECURSIVE bool_of_stack_item_from(_, _)
bool_of_stack_item_from(v, idx) ==
    IF idx > Len(v) THEN FALSE
    ELSE IF v[idx] # 0 THEN ~(idx = Len(v) /\ v[idx] = 128)
    ELSE bool_of_stack_item_from(v, idx + 1)

bool_of_stack_item(v) == bool_of_stack_item_from(v, 1)

\* ONE_enc and ZERO_enc.
ONE_enc == encode(1)
ZERO_enc == encode(0)

Top(stk) == stk[Len(stk)]
Pop(stk) == SubSeq(stk, 1, Len(stk) - 1)
Pop2(stk) == SubSeq(stk, 1, Len(stk) - 2)
Pop3(stk) == SubSeq(stk, 1, Len(stk) - 3)

Returns(b, stk, cs) == [ret |-> IF b THEN "True" ELSE "False", stack |-> stk, cs |-> cs]
\* Faulty variant of RaisesValueError: an unsupported opcode merely fails.
UnsupportedReturnsFalse(stk, cs) == Returns(FALSE, stk, cs)
RaisesValueError(stk, cs) == [ret |-> "ValueError", stack |-> stk, cs |-> cs]
\* toggle_top or pop_back raises inside handle.
RaisesConditionStackError(stk, cs) ==
    [ret |-> "ConditionStackError", stack |-> stk, cs |-> cs]

\* Faulty variant of handle_pushes: appends whether executing or not.
handle_pushes_always(op, stk, should_execute) ==
    IF op.t = "bytes" THEN Append(stk, op.b)
    ELSE IF op.t \in {"int", "op"} THEN Append(stk, encode(op.n))
    ELSE stk

\* The first two "if" statements of handle: push data is appended when
\* executing; isinstance(op, int) holds for a small integer and also for a
\* CScriptOp (class CScriptOp(int)), whose number is then appended as well.
handle_pushes(op, stk, should_execute) ==
    LET s1 == IF op.t = "bytes" /\ should_execute THEN Append(stk, op.b) ELSE stk
    IN IF op.t \in {"int", "op"} /\ should_execute
       THEN Append(s1, encode(op.n))
       ELSE s1

\* The branch "if isinstance(op, CScriptOp)" of handle, on the stack s left by
\* the pushes above.
handle_op(o, s, cs, should_execute) ==
    IF o = OP_IF \/ o = OP_NOTIF THEN
        IF should_execute THEN
            IF Len(s) < 1 THEN Returns(FALSE, s, cs)
            ELSE LET cond == Top(s)
                     bv == bool_of_stack_item(cond)
                 IN IF Len(cond) > 1 THEN Returns(FALSE, Pop(s), cs)
                    ELSE IF Len(cond) = 1 /\ cond[1] # 1 THEN Returns(FALSE, Pop(s), cs)
                    ELSE Returns(TRUE, Pop(s),
                                 push_back(cs, IF o = OP_NOTIF THEN ~bv ELSE bv))
        ELSE Returns(TRUE, s, push_back(cs, FALSE))
    ELSE IF o = OP_ELSE THEN
        IF empty(cs) THEN Returns(FALSE, s, cs)
        ELSE IF raises_ConditionStackError(cs) THEN RaisesConditionStackError(s, cs)
        ELSE Returns(TRUE, s, toggle_top(cs))
    ELSE IF o = OP_ENDIF THEN
        IF empty(cs) THEN Returns(FALSE, s, cs)
        ELSE IF raises_ConditionStackError(cs) THEN RaisesConditionStackError(s, cs)
        ELSE Returns(TRUE, s, pop_back(cs))
    ELSE IF ~should_execute THEN Returns(TRUE, s, cs)
    ELSE IF o = OP_SHA256 THEN Returns(Len(s) >= 1, s, cs)
    ELSE IF o = OP_1SUB THEN
        IF Len(s) < 1 THEN Returns(FALSE, s, cs)
        ELSE Returns(TRUE, Append(Pop(s), encode(decode(Top(s)) - 1)), cs)
    ELSE IF o = OP_WITHIN THEN
        IF Len(s) < 3 THEN Returns(FALSE, s, cs)
        ELSE LET upper == decode(s[Len(s)])
                 lower == decode(s[Len(s) - 1])
                 num == decode(s[Len(s) - 2])
             IN Returns(TRUE,
                        Append(Pop3(s), IF lower <= num /\ num < upper
                                        THEN <<0>> ELSE <<>>),
                        cs)
    ELSE IF o = OP_0 THEN Returns(TRUE, Append(s, ZERO_enc), cs)
    ELSE IF o = OP_1 THEN Returns(TRUE, Append(s, ONE_enc), cs)
    ELSE IF o = OP_DROP THEN
        IF Len(s) < 1 THEN Returns(FALSE, s, cs) ELSE Returns(TRUE, Pop(s), cs)
    ELSE IF o = OP_IFDUP THEN
        IF Len(s) < 1 THEN Returns(FALSE, s, cs)
        ELSE Returns(TRUE,
                     IF bool_of_stack_item(Top(s)) THEN Append(s, Top(s)) ELSE s,
                     cs)
    ELSE IF o = OP_DUP THEN
        IF Len(s) < 1 THEN Returns(FALSE, s, cs)
        ELSE Returns(TRUE, Append(s, Top(s)), cs)
    ELSE IF o = OP_CHECKSIGVERIFY THEN
        IF Len(s) < 2 THEN Returns(FALSE, s, cs) ELSE Returns(TRUE, Pop2(s), cs)
    ELSE IF o \in {OP_CHECKTEMPLATEVERIFY, OP_CHECKLOCKTIMEVERIFY,
                   OP_CHECKSEQUENCEVERIFY} THEN
        Returns(Len(s) >= 1, s, cs)
    ELSE IF o = OP_EQUALVERIFY THEN
        IF Len(s) < 2 THEN Returns(FALSE, s, cs)
        ELSE Returns(s[Len(s)] = s[Len(s) - 1], Pop2(s), cs)
    ELSE IF o = OP_VERIFY THEN
        IF Len(s) < 1 THEN Returns(FALSE, s, cs)
        ELSE Returns(bool_of_stack_item(Top(s)), Pop(s), cs)
    ELSE RaisesValueError(s, cs)

\* handle(op, stack, handle_branch): what it returns or raises, and the stack
\* and ConditionStack it leaves.
handle(op, stk, cs) ==
    LET should_execute == all_true(cs)
        s == handle_pushes(op, stk, should_execute)
    IN IF op.t = "op" THEN handle_op(op.n, s, cs, should_execute)
       ELSE Returns(TRUE, s, cs)

-----------------------------------------------------------------------------
\* Specification SpecInterp: interpret(CScript(values)).

InterpOps ==
    {OpItem(OP_DUP), OpItem(OP_EQUALVERIFY), OpItem(OP_DROP), OpItem(OP_VERIFY),
     OpItem(OP_IF), OpItem(OP_ELSE), OpItem(OP_ENDIF), OpItem(OP_NOP)}
InterpInts == {IntItem(0), IntItem(1)}
InterpBytes == {BytesItem(<<>>), BytesItem(<<1>>), BytesItem(<<2>>), BytesItem(<<1, 2>>)}
\* A CScript spliced in as it is: a push of two bytes cut after the first.
InterpScripts == {ScriptItem(<<2, 1>>)}
InterpItems == InterpOps \cup InterpInts \cup InterpBytes \cup InterpScripts

InitInterp ==
    /\ pc = "new"
    /\ value \in {IterableValue(xs) : xs \in SeqsUpTo(InterpItems, MaxItems)}
    /\ script = <<>> /\ i = 0 /\ raw = <<>> /\ cooked = <<>>
    /\ err = "none" /\ errdata = <<>>
    /\ InterpIdle
    /\ CondIdle /\ NumIdle /\ SigopIdle /\ FadIdle

\* s = CScript(values); the first two statements of interpret(s).
InterpretStart ==
    /\ pc = "new"
    /\ script' = CScript_new(value)
    /\ stack' = <<>>
    /\ SetConditionStack(ConditionStack_init)
    /\ pc' = "interpret"
    /\ UNCHANGED <<value, i, raw, cooked, err, errdata, result, stack0, cs0>>
    /\ UNCHANGED <<bools, called, raised, numVars, sigopVars, fadVars>>

\* Faulty variant of InterpretStep: a failing item does not end the loop.
InterpretStep_keeps_going ==
    /\ pc = "interpret"
    /\ IF i >= Len(script)
       THEN /\ result' = "True" /\ pc' = "done"
            /\ UNCHANGED <<i, raw, cooked, err, errdata, stack, stack0, cs0,
                           stack_size, first_false_position>>
       ELSE LET st == raw_iter_step(script, i)
                h == handle(cook(st), stack, handle_branch)
            IN IF st.kind # "yield"
               THEN /\ err' = st.kind /\ errdata' = st.data
                    /\ result' = "raises" /\ pc' = "done"
                    /\ UNCHANGED <<i, raw, cooked, stack, stack0, cs0,
                                   stack_size, first_false_position>>
               ELSE /\ raw' = Append(raw, RawTuple(st))
                    /\ cooked' = Append(cooked, cook(st))
                    /\ i' = st.i
                    /\ stack0' = stack /\ cs0' = handle_branch
                    /\ stack' = h.stack
                    /\ SetConditionStack(h.cs)
                    /\ errdata' = errdata
                    /\ IF h.ret \in {"True", "False", "ConditionStackError"}
                       THEN UNCHANGED <<pc, result, err>>
                       ELSE result' = "raises" /\ err' = h.ret /\ pc' = "done"
    /\ UNCHANGED <<value, script>>
    /\ UNCHANGED <<bools, called, raised, numVars, sigopVars, fadVars>>

\* One turn of "for op in iter(s)": the next cooked value, then handle.
\* An exception of the iteration or a ValueError of handle leaves interpret;
\* handle returning False, or a ConditionStackError, makes it return False.
InterpretStep ==
    /\ pc = "interpret"
    /\ IF i >= Len(script)
       THEN /\ result' = "True" /\ pc' = "done"
            /\ UNCHANGED <<i, raw, cooked, err, errdata, stack, stack0, cs0,
                           stack_size, first_false_position>>
       ELSE LET st == raw_iter_step(script, i)
                h == handle(cook(st), stack, handle_branch)
            IN IF st.kind # "yield"
               THEN /\ err' = st.kind /\ errdata' = st.data
                    /\ result' = "raises" /\ pc' = "done"
                    /\ UNCHANGED <<i, raw, cooked, stack, stack0, cs0,
                                   stack_size, first_false_position>>
               ELSE /\ raw' = Append(raw, RawTuple(st))
                    /\ cooked' = Append(cooked, cook(st))
                    /\ i' = st.i
                    /\ stack0' = stack /\ cs0' = handle_branch
                    /\ stack' = h.stack
                    /\ SetConditionStack(h.cs)
                    /\ errdata' = errdata
                    /\ IF h.ret = "True"
                       THEN UNCHANGED <<pc, result, err>>
                       ELSE IF h.ret \in {"False", "ConditionStackError"}
                       THEN result' = "False" /\ pc' = "done" /\ UNCHANGED err
                       ELSE result' = "raises" /\ err' = h.ret /\ pc' = "done"
    /\ UNCHANGED <<value, script>>
    /\ UNCHANGED <<bools, called, raised, numVars, sigopVars, fadVars>>

NextInterp == InterpretStart \/ InterpretStep

SpecInterp == InitInterp /\ [][NextInterp]_vars

\* C7: for every pushed byte string x, interpreting [push x, OP_DUP,
\* OP_EQUALVERIFY] leaves two equal copies of x on top of the stack after
\* OP_DUP; OP_EQUALVERIFY pops both and succeeds; interpret returns True.
C7_DupEqualVerify ==
    (\E x \in InterpBytes :
        value.items = <<x, OpItem(OP_DUP), OpItem(OP_EQUALVERIFY)>>) =>
        /\ (Len(cooked) = 2 /\ result = "running") =>
                stack = <<value.items[1].b, value.items[1].b>>
        /\ pc = "done" => (result = "True" /\ stack = <<>>)

-----------------------------------------------------------------------------
\* Instructions of a script, told from its bytes alone (used to state claims).

\* From position p on, no instruction of s is cut by the end of s.
RECURSIVE WellFormedFrom(_, _)
WellFormedFrom(s, p) ==
    IF p >= Len(s) THEN TRUE
    ELSE /\ ~HeaderCut(s, p)
         /\ ~PayloadCut(s, p)
         /\ WellFormedFrom(s, p + HeadSize(s[p + 1]) + Declared(s, p))

WellFormed(s) == WellFormedFrom(s, 0)

\* Number of instructions of well-formed s, from p on, whose opcode is in ops.
RECURSIVE CountOps(_, _, _)
CountOps(s, p, ops) ==
    IF p >= Len(s) THEN 0
    ELSE (IF s[p + 1] \in ops THEN 1 ELSE 0)
         + CountOps(s, p + HeadSize(s[p + 1]) + Declared(s, p), ops)

-----------------------------------------------------------------------------
\* CScript.GetSigOpCount

\* Faulty variant of GetSigOpCount_turn: OP_CHECKSIGVERIFY is not counted.
GetSigOpCount_turn_no_verify(opcode, last, accurate, cnt) ==
    IF opcode = OP_CHECKSIG THEN [raises |-> FALSE, n |-> cnt + 1]
    ELSE IF opcode \in {OP_CHECKMULTISIG, OP_CHECKMULTISIGVERIFY} THEN
        IF accurate /\ (OP_1 <= last /\ last <= OP_16)
        THEN IF decode_op_n_raises(opcode) THEN [raises |-> TRUE, n |-> cnt]
             ELSE [raises |-> FALSE, n |-> cnt + decode_op_n(opcode)]
        ELSE [raises |-> FALSE, n |-> cnt + 20]
    ELSE [raises |-> FALSE, n |-> cnt]

\* The body of GetSigOpCount's loop for one tuple: the new n, or the
\* ValueError of decode_op_n, which is called on opcode (not on lastOpcode).
GetSigOpCount_turn(opcode, last, accurate, cnt) ==
    IF opcode \in {OP_CHECKSIG, OP_CHECKSIGVERIFY}
    THEN [raises |-> FALSE, n |-> cnt + 1]
    ELSE IF opcode \in {OP_CHECKMULTISIG, OP_CHECKMULTISIGVERIFY} THEN
        IF accurate /\ (OP_1 <= last /\ last <= OP_16)
        THEN IF decode_op_n_raises(opcode) THEN [raises |-> TRUE, n |-> cnt]
             ELSE [raises |-> FALSE, n |-> cnt + decode_op_n(opcode)]
        ELSE [raises |-> FALSE, n |-> cnt + 20]
    ELSE [raises |-> FALSE, n |-> cnt]

\* Specification SpecSigOps: CScript(bytes).GetSigOpCount(fAccurate).

\* PUSHDATA4 is left out: with bytes above 127 its length passes the model's
\* integers.
SigopBytes ==
    {1, OP_PUSHDATA1, OP_2, OP_16, OP_CHECKSIG, OP_CHECKSIGVERIFY,
     OP_CHECKMULTISIG, OP_CHECKMULTISIGVERIFY}

InitSigOps ==
    /\ pc = "new"
    /\ value \in {BytesValue(x) : x \in SeqsUpTo(SigopBytes, MaxLen)}
    /\ fAccurate \in BOOLEAN
    /\ script = <<>> /\ i = 0 /\ raw = <<>> /\ cooked = <<>>
    /\ err = "none" /\ errdata = <<>>
    /\ n = 0 /\ lastOpcode = OP_INVALIDOPCODE
    /\ InterpIdle /\ CondIdle /\ NumIdle /\ FadIdle

\* script = CScript(value); the first two statements of GetSigOpCount.
GetSigOpCountStart ==
    /\ pc = "new"
    /\ script' = CScript_new(value)
    /\ n' = 0 /\ lastOpcode' = OP_INVALIDOPCODE
    /\ pc' = "sigops"
    /\ UNCHANGED <<value, i, raw, cooked, err, errdata, fAccurate>>
    /\ UNCHANGED <<interpVars, condVars, numVars, fadVars>>

\* One turn of "for (opcode, data, sop_idx) in self.raw_iter()", or the
\* return of n at its end.
GetSigOpCountStep ==
    /\ pc = "sigops"
    /\ IF i >= Len(script)
       THEN /\ result' = "returned" /\ pc' = "done"
            /\ UNCHANGED <<i, raw, err, errdata, n, lastOpcode>>
       ELSE LET st == raw_iter_step(script, i)
                t == GetSigOpCount_turn(st.opcode, lastOpcode, fAccurate, n)
            IN IF st.kind # "yield"
               THEN /\ err' = st.kind /\ errdata' = st.data
                    /\ result' = "raises" /\ pc' = "done"
                    /\ UNCHANGED <<i, raw, n, lastOpcode>>
               ELSE /\ raw' = Append(raw, RawTuple(st))
                    /\ i' = st.i
                    /\ errdata' = errdata
                    /\ IF t.raises
                       THEN /\ err' = "ValueError"
                            /\ result' = "raises" /\ pc' = "done"
                            /\ UNCHANGED <<n, lastOpcode>>
                       ELSE /\ n' = t.n /\ lastOpcode' = st.opcode
                            /\ UNCHANGED <<pc, result, err>>
    /\ UNCHANGED <<value, script, cooked, fAccurate, stack, stack0, cs0>>
    /\ UNCHANGED <<condVars, numVars, fadVars>>

NextSigOps == GetSigOpCountStart \/ GetSigOpCountStep

SpecSigOps == InitSigOps /\ [][NextSigOps]_vars

\* C8: in accurate mode, OP_CHECKMULTISIG or OP_CHECKMULTISIGVERIFY right
\* after the small-integer push OP_k (k in 1..16) contributes exactly k, and
\* the call returns an integer: on [OP_k, OP_CHECKMULTISIG(VERIFY)] it
\* returns k.
C8_AccurateMultisig ==
    (/\ pc = "done" /\ fAccurate /\ Len(script) = 2
     /\ OP_1 <= script[1] /\ script[1] <= OP_16
     /\ script[2] \in {OP_CHECKMULTISIG, OP_CHECKMULTISIGVERIFY})
        => (result = "returned" /\ n = script[1] - OP_1 + 1)

\* C9: in non-accurate mode, on every well-formed script the result is the
\* number of OP_CHECKSIG and OP_CHECKSIGVERIFY instructions plus 20 times the
\* number of OP_CHECKMULTISIG and OP_CHECKMULTISIGVERIFY instructions;
\* payload bytes are not counted and the preceding instruction plays no part.
C9_ConservativeCount ==
    (pc = "done" /\ ~fAccurate /\ WellFormed(script)) =>
        /\ result = "returned"
        /\ n = CountOps(script, 0, {OP_CHECKSIG, OP_CHECKSIGVERIFY})
               + 20 * CountOps(script, 0, {OP_CHECKMULTISIG, OP_CHECKMULTISIGVERIFY})

\* A payload byte equal to OP_CHECKSIG, then OP_2, then OP_CHECKMULTISIG: 20.
C9_Witness ==
    /\ pc = "done" /\ ~fAccurate /\ result = "returned"
    /\ script = <<1, OP_CHECKSIG, OP_2, OP_CHECKMULTISIG>>
    /\ n = 20

-----------------------------------------------------------------------------
\* FindAndDelete

\* Faulty variant of sig_at: the pattern must be the whole instruction.
sig_is_instruction(scr, sop, sg) ==
    SubSeq(scr, sop + 1, sop + HeadSize(scr[sop + 1]) + Declared(scr, sop)) = sg

\* "script[sop_idx : sop_idx + len(sig)] == sig"
sig_at(scr, sop, sg) == Slice(scr, sop, sop + Len(sg)) = sg

\* Specification SpecFindAndDelete: FindAndDelete(CScript(bytes), sig).

FadBytes == {1, 2, OP_PUSHDATA1, OP_DUP}

InitFindAndDelete ==
    /\ pc = "new"
    /\ value \in {BytesValue(x) : x \in SeqsUpTo(FadBytes, MaxFadLen)}
    /\ sig \in SeqsUpTo(FadBytes, MaxSig)
    /\ script = <<>> /\ i = 0 /\ raw = <<>> /\ cooked = <<>>
    /\ err = "none" /\ errdata = <<>>
    /\ r = <<>> /\ last_sop_idx = 0 /\ sop_idx = 0 /\ skip = TRUE
    /\ InterpIdle /\ CondIdle /\ NumIdle /\ SigopIdle

\* script = CScript(value); the statements of FindAndDelete before its loop.
FindAndDeleteStart ==
    /\ pc = "new"
    /\ script' = CScript_new(value)
    /\ r' = <<>> /\ last_sop_idx' = 0 /\ sop_idx' = 0 /\ skip' = TRUE
    /\ pc' = "fad"
    /\ UNCHANGED <<value, i, raw, cooked, err, errdata, sig>>
    /\ UNCHANGED <<interpVars, condVars, numVars, sigopVars>>

\* One turn of "for (opcode, data, sop_idx) in script.raw_iter()", or the
\* statements after the loop and the return of CScript(r).
FindAndDeleteStep ==
    /\ pc = "fad"
    /\ IF i >= Len(script)
       THEN /\ r' = IF ~skip THEN r \o Slice(script, last_sop_idx, Len(script))
                    ELSE r
            /\ result' = "returned" /\ pc' = "done"
            /\ UNCHANGED <<i, raw, err, errdata, last_sop_idx, sop_idx, skip>>
       ELSE LET st == raw_iter_step(script, i)
            IN IF st.kind # "yield"
               THEN /\ err' = st.kind /\ errdata' = st.data
                    /\ result' = "raises" /\ pc' = "done"
                    /\ UNCHANGED <<i, raw, r, last_sop_idx, sop_idx, skip>>
               ELSE /\ raw' = Append(raw, RawTuple(st))
                    /\ i' = st.i
                    /\ sop_idx' = st.sop_idx
                    /\ r' = IF ~skip
                            THEN r \o Slice(script, last_sop_idx, st.sop_idx)
                            ELSE r
                    /\ last_sop_idx' = st.sop_idx
                    /\ skip' = sig_at(script, st.sop_idx, sig)
                    /\ UNCHANGED <<pc, result, err, errdata>>
    /\ UNCHANGED <<value, script, cooked, sig, stack, stack0, cs0>>
    /\ UNCHANGED <<condVars, numVars, sigopVars>>

NextFindAndDelete == FindAndDeleteStart \/ FindAndDeleteStep

SpecFindAndDelete == InitFindAndDelete /\ [][NextFindAndDelete]_vars

\* The source bytes, in order, of the instructions of well-formed s from p on
\* that are not removed; exact tells which test removes an instruction.
RECURSIVE KeptBytes(_, _, _, _)
KeptBytes(s, p, sg, exact) ==
    IF p >= Len(s) THEN <<>>
    ELSE LET e == p + HeadSize(s[p + 1]) + Declared(s, p)
             span == SubSeq(s, p + 1, e)
             removed == IF exact THEN span = sg
                        ELSE SubSeq(s, p + 1, Min(p + Len(sg), Len(s))) = sg
         IN (IF removed THEN <<>> ELSE span) \o KeptBytes(s, e, sg, exact)

\* C10 as claimed: FindAndDelete returns the source bytes of exactly the
\* instructions whose own byte range is not equal to sig; an instruction of
\* which sig is only a proper prefix is not removed.
C10_RemovesEqualInstructions ==
    (pc = "done" /\ WellFormed(script)) =>
        (result = "returned" /\ r = KeptBytes(script, 0, sig, TRUE))

\* C10 amended: FindAndDelete returns the source bytes of exactly the
\* instructions at whose offset the script's bytes do not start with sig.
C10_RemovesPrefixedInstructions ==
    (pc = "done" /\ WellFormed(script)) =>
        (result = "returned" /\ r = KeptBytes(script, 0, sig, FALSE))

\* sig is only the length byte of a push, a proper prefix of the instruction:
\* the whole push is removed.
C10_Witness ==
    /\ pc = "done" /\ result = "returned"
    /\ script = <<1, 2, OP_DUP>> /\ sig = <<1>>
    /\ r = <<OP_DUP>>

-----------------------------------------------------------------------------
\* The interpreter's loop, told from the state it leaves behind.

\* The item handle was last called with, and what handle answers for it from
\* the stack and ConditionStack it was entered with.
LastItem == cooked[Len(cooked)]
LastStep == handle(LastItem, stack0, cs0)

\* C11: interpret hands the script's items to handle strictly in order; it
\* returns False at the first item whose step fails, having decoded nothing
\* after it and raised nothing; it returns True exactly when the whole script
\* was consumed and no step failed, whatever the final stack.
C11_FirstFailureEndsRun ==
    pc \in {"interpret", "done"} =>
        /\ Len(cooked) = Len(raw)
        /\ \A k \in 1..Len(raw) :
              /\ raw[k].sop_idx = (IF k = 1 THEN 0 ELSE EndOf(k - 1))
              /\ cooked[k] = cook(raw_iter_step(script, raw[k].sop_idx))
        /\ i = (IF Len(raw) = 0 THEN 0 ELSE EndOf(Len(raw)))
        /\ (result = "running" /\ cooked # <<>>) => LastStep.ret = "True"
        /\ result = "False" =>
              /\ pc = "done" /\ err = "none"
              /\ cooked # <<>> /\ LastStep.ret \in {"False", "ConditionStackError"}
        /\ result = "True" <=>
              /\ pc = "done" /\ err = "none" /\ i = Len(script)
              /\ cooked # <<>> => LastStep.ret = "True"

\* OP_ENDIF fails first: the cut push after it is never decoded.
C11_Witness ==
    /\ pc = "done" /\ result = "False" /\ err = "none"
    /\ script = <<OP_ENDIF, 2, 1>>
    /\ cooked = <<OpItem(OP_ENDIF)>> /\ i = 1

\* The opcodes the interpreter supports.
AllowedOp ==
    {OP_IF, OP_NOTIF, OP_ELSE, OP_ENDIF, OP_0, OP_1, OP_1SUB, OP_WITHIN,
     OP_DUP, OP_IFDUP, OP_DROP, OP_SHA256, OP_CHECKSIGVERIFY,
     OP_CHECKTEMPLATEVERIFY, OP_CHECKLOCKTIMEVERIFY, OP_CHECKSEQUENCEVERIFY,
     OP_VERIFY, OP_EQUALVERIFY}

\* C12: an opcode outside the supported subset reached while execution is
\* active makes interpret raise ValueError instead of returning; a cut push
\* makes it raise a CScriptInvalidError, which is another kind of error; and a
\* step that merely fails makes it return False and raise neither.
C12_UnsupportedOpcodeRaises ==
    (pc = "done" /\ cooked # <<>>) =>
        /\ (LastItem.t = "op" /\ LastItem.n \notin AllowedOp /\ all_true(cs0)) =>
              (result = "raises" /\ err = "ValueError")
        /\ err = "ValueError" =>
              /\ result = "raises" /\ ~IsCScriptInvalidError(err)
              /\ LastItem.t = "op" /\ LastItem.n \notin AllowedOp
        /\ IsCScriptInvalidError(err) =>
              /\ result = "raises" /\ err # "ValueError"
              /\ HeaderCut(script, i) \/ PayloadCut(script, i)
        /\ LastStep.ret = "False" => (result = "False" /\ err = "none")

\* A pushed item, then OP_NOP: the push is handled, OP_NOP raises ValueError.
C12_Witness ==
    /\ pc = "done" /\ result = "raises" /\ err = "ValueError"
    /\ script = <<1, 2, OP_NOP>> /\ Len(cooked) = 2
    /\ stack0 = <<<<2>>>>

-----------------------------------------------------------------------------
\* Specification SpecHandle: a caller builds a stack and a ConditionStack,
\* then calls handle once with an item.

\* Longest stack and deepest ConditionStack the caller builds.
MaxStack == 3
MaxBranch == 2

\* CScriptNum.encode of -2^63, the least signed 64-bit integer: the length
\* byte, eight magnitude bytes with the top bit set, and the sign byte.
MinInt64Item == <<9, 0, 0, 0, 0, 0, 0, 0, 128, 128>>

HandleStackItems == {<<>>, <<1>>, <<2>>, <<1, 1>>, <<1, 2>>, MinInt64Item}
HandleItems ==
    {OpItem(o) : o \in AllowedOp \cup {OP_NOP}} \cup {IntItem(1), BytesItem(<<2>>)}

InitHandle ==
    /\ pc = "caller"
    /\ IterIdle /\ NumIdle /\ CondIdle /\ InterpIdle /\ SigopIdle /\ FadIdle

\* stack.append(x) by the caller.
HandleAppend ==
    /\ pc = "caller" /\ Len(stack) < MaxStack
    /\ \E x \in HandleStackItems : stack' = Append(stack, x)
    /\ UNCHANGED <<pc, iterVars, numVars, condVars, result, stack0, cs0,
                   sigopVars, fadVars>>

\* handle_branch.push_back(b) by the caller.
HandlePushBack ==
    /\ pc = "caller" /\ stack_size < MaxBranch
    /\ \E b \in BOOLEAN : SetConditionStack(push_back(handle_branch, b))
    /\ UNCHANGED <<pc, iterVars, numVars, bools, called, raised, interpVars,
                   sigopVars, fadVars>>

\* handle(op, stack, handle_branch). OP_WITHIN is not called over the nine-byte
\* item, whose value is outside the integers of the model.
HandleCall ==
    /\ pc = "caller"
    /\ \E op \in HandleItems :
          /\ op = OpItem(OP_WITHIN) => \A k \in 1..Len(stack) : stack[k] # MinInt64Item
          /\ LET h == handle(op, stack, handle_branch)
             IN /\ cooked' = <<op>>
                /\ stack0' = stack /\ cs0' = handle_branch
                /\ stack' = h.stack
                /\ SetConditionStack(h.cs)
                /\ IF h.ret \in {"True", "False"}
                   THEN result' = h.ret /\ err' = err
                   ELSE result' = "raises" /\ err' = h.ret
    /\ pc' = "handled"
    /\ UNCHANGED <<value, script, i, raw, errdata>>
    /\ UNCHANGED <<bools, called, raised, numVars, sigopVars, fadVars>>

NextHandle == HandleAppend \/ HandlePushBack \/ HandleCall

SpecHandle == InitHandle /\ [][NextHandle]_vars

\* handle was called with opcode o while execution was active.
ActiveCall(o) ==
    pc = "handled" /\ cooked = <<OpItem(o)>> /\ all_true(cs0)

\* C13: OP_1SUB executed while active on a stack whose top item decodes to the
\* least signed 64-bit integer fails or aborts; it does not push a smaller
\* number and succeed.
C13_OneSubOverflowFails ==
    (ActiveCall(OP_1SUB) /\ stack0 # <<>> /\ Top(stack0) = MinInt64Item) =>
        result \in {"False", "raises"}

\* C14: OP_ELSE or OP_ENDIF handled while the ConditionStack is empty makes the
\* step fail and interpret return False; every step that fails ends the run
\* with False; and no ConditionStackError ever leaves interpret.
C14_BranchMisuseReturnsFalse ==
    /\ err # "ConditionStackError"
    /\ (pc = "done" /\ cooked # <<>>) =>
          /\ (LastItem \in {OpItem(OP_ELSE), OpItem(OP_ENDIF)}
              /\ cs0.stack_size = 0) =>
                (LastStep.ret = "False" /\ result = "False" /\ err = "none")
          /\ (LastStep.ret \notin {"True", "ValueError"}) =>
                (result = "False" /\ err = "none")

\* A pushed item, then OP_ELSE with no frame open.
C14_Witness ==
    /\ pc = "done" /\ result = "False" /\ err = "none"
    /\ script = <<1, 2, OP_ELSE>> /\ Len(cooked) = 2
    /\ cs0 = ConditionStack_init /\ stack = <<<<2>>, encode(OP_ELSE)>>

\* C15: OP_IF (OP_NOTIF) executed while active on a stack whose top item is
\* empty or the single byte 1 pops exactly that item, pushes its truth value
\* (negated for OP_NOTIF) on the ConditionStack, which grows by one, and the
\* step succeeds.
C15_IfConsumesCondition ==
    \A o \in {OP_IF, OP_NOTIF} :
        (ActiveCall(o) /\ stack0 # <<>> /\ Top(stack0) \in {<<>>, <<1>>}) =>
            /\ result = "True"
            /\ stack = Pop(stack0)
            /\ handle_branch =
                  push_back(cs0, (Top(stack0) = <<1>>) = (o = OP_IF))
            /\ stack_size = cs0.stack_size + 1

\* C16: OP_VERIFY executed while active pops the item that was on top of the
\* stack before it, and the step fails when that item is false; so
\* interpreting [push of the empty string, OP_VERIFY] returns False.
C16_VerifyPopsTop ==
    (pc \in {"interpret", "done"} /\ cooked # <<>> /\ LastItem = OpItem(OP_VERIFY)
     /\ all_true(cs0) /\ stack0 # <<>>) =>
        /\ stack = Pop(stack0)
        /\ ~bool_of_stack_item(Top(stack0)) => (pc = "done" /\ result = "False")

\* Opcodes that need one item, and two items, on the stack.
OneOperandOps ==
    {OP_DROP, OP_DUP, OP_IFDUP, OP_VERIFY, OP_SHA256, OP_1SUB,
     OP_CHECKTEMPLATEVERIFY, OP_CHECKLOCKTIMEVERIFY, OP_CHECKSEQUENCEVERIFY}
TwoOperandOps == {OP_EQUALVERIFY, OP_CHECKSIGVERIFY}

\* C17: an opcode executed while active on a stack with fewer items than it
\* needs (one, two for OP_EQUALVERIFY and OP_CHECKSIGVERIFY, three for
\* OP_WITHIN) makes the step fail.
C17_UnderflowFails ==
    /\ \A o \in OneOperandOps :
          (ActiveCall(o) /\ Len(stack0) < 1) => result = "False"
    /\ \A o \in TwoOperandOps :
          (ActiveCall(o) /\ Len(stack0) < 2) => result = "False"
    /\ (ActiveCall(OP_WITHIN) /\ Len(stack0) < 3) => result = "False"

\* C18: handle called while execution is not active leaves the stack as it
\* was, whatever the item, raises nothing even for an unsupported opcode, and
\* succeeds; OP_IF and OP_NOTIF pop nothing and deepen the ConditionStack by
\* one without moving its marker; only OP_ELSE and OP_ENDIF can move the
\* marker, and every other item leaves the ConditionStack as it was.
C18_InactiveFrame ==
    (pc = "handled" /\ cs0.first_false_position # NO_FALSE) =>
        /\ stack = stack0
        /\ result = "True" /\ err = "none"
        /\ cooked[1] \in {OpItem(OP_IF), OpItem(OP_NOTIF)} =>
              /\ stack_size = cs0.stack_size + 1
              /\ first_false_position = cs0.first_false_position
        /\ cooked[1] \notin {OpItem(OP_ELSE), OpItem(OP_ENDIF)} =>
              first_false_position = cs0.first_false_position
        /\ cooked[1] \notin {OpItem(OP_IF), OpItem(OP_NOTIF), OpItem(OP_ELSE),
                             OpItem(OP_ENDIF)} => handle_branch = cs0

\* An unsupported opcode skipped inside a branch that is not taken.
C18_Witness ==
    /\ pc = "handled" /\ cooked = <<OpItem(OP_NOP)>>
    /\ cs0 = [stack_size |-> 2, first_false_position |-> 1]
    /\ stack0 = <<<<1>>>> /\ stack = stack0 /\ result = "True"

\* C19: cooked iteration yields the integer n for the canonical push-n opcode
\* (OP_0 for 0, OP_1 .. OP_16 for 1 .. 16), the payload for any other push
\* opcode, and the CScriptOp for every other opcode.
C19_SmallIntOpcodesCookToIntegers ==
    \A k \in 1..Len(cooked) :
        LET opcode == raw[k].opcode
        IN IF is_small_int(opcode) THEN cooked[k] = IntItem(decode_op_n(opcode))
           ELSE IF raw[k].hasdata THEN cooked[k] = BytesItem(raw[k].data)
           ELSE cooked[k] = OpItem(opcode)

\* C20: OP_WITHIN executed while active on a stack ending in num, lower, upper
\* (upper on top) pops those three items and pushes one item, which is true
\* exactly when lower <= num < upper; the step succeeds.
C20_WithinHalfOpenRange ==
    (ActiveCall(OP_WITHIN) /\ Len(stack0) >= 3) =>
        LET upper == decode(stack0[Len(stack0)])
            lower == decode(stack0[Len(stack0) - 1])
            num == decode(stack0[Len(stack0) - 2])
        IN /\ result = "True"
           /\ Len(stack) = Len(stack0) - 2
           /\ Pop(stack) = Pop3(stack0)
           /\ bool_of_stack_item(Top(stack)) <=> (lower <= num /\ num < upper)

-----------------------------------------------------------------------------
\* C21: pop_back and toggle_top called at depth 0 raise ConditionStackError and
\* leave stack_size and first_false_position as they were; at depth > 0
\* pop_back decrements stack_size and sets the marker to NO_FALSE exactly when
\* it equals the new depth, and toggle_top keeps stack_size and changes the
\* marker only when it is NO_FALSE or stack_size - 1.
C21_PopToggleStep ==
    [][/\ called' = "pop_back" =>
             IF stack_size = 0
             THEN raised' /\ UNCHANGED <<stack_size, first_false_position>>
             ELSE /\ ~raised'
                  /\ stack_size' = stack_size - 1
                  /\ first_false_position' =
                        IF first_false_position = stack_size'
                        THEN NO_FALSE ELSE first_false_position
       /\ called' = "toggle_top" =>
             IF stack_size = 0
             THEN raised' /\ UNCHANGED <<stack_size, first_false_position>>
             ELSE /\ ~raised'
                  /\ stack_size' = stack_size
                  /\ first_false_position' # first_false_position =>
                        first_false_position \in {NO_FALSE, stack_size - 1}
      ]_vars

\* toggle_top failed on the empty ConditionStack and left it as it was.
C21_Witness ==
    /\ called = "toggle_top" /\ raised
    /\ stack_size = 0 /\ first_false_position = NO_FALSE /\ bools = <<>>

-----------------------------------------------------------------------------
\* Specification SpecRecode: CScriptNum.encode(CScriptNum(CScriptNum.decode(x)))
\* on a stack byte string x, and the same once more on the result.

\* Most value bytes after the prefix byte of x.
MaxVch == 2
VchBytes == {0, 1, 2, 127, 128, 129, 255}
\* x: nothing at all, or a prefix byte (the length, or a wrong one) followed by
\* any value bytes, minimal or not.
VchInputs ==
    {<<>>} \cup
    {<<p>> \o v : p \in {0, 1, 2}, v \in SeqsUpTo(VchBytes, MaxVch)}

InitRecode ==
    /\ pc = "re_start"
    /\ num_vch \in VchInputs
    /\ num_n = 0 /\ num_enc = <<>> /\ num_dec = 0 /\ num_enc2 = <<>>
    /\ IterIdle /\ CondIdle /\ InterpIdle /\ SigopIdle /\ FadIdle

RecodeFrame == UNCHANGED <<num_vch, iterVars, condVars, interpVars, sigopVars, fadVars>>

\* CScriptNum(CScriptNum.decode(...)): of x first, of the re-encoding next.
RecodeDecode ==
    /\ \/ /\ pc = "re_start"
          /\ num_dec' = decode(num_vch) /\ num_n' = num_n
          /\ pc' = "re_decoded"
       \/ /\ pc = "re_encoded"
          /\ num_n' = decode(num_enc) /\ num_dec' = num_dec
          /\ pc' = "re_decoded_again"
    /\ UNCHANGED <<num_enc, num_enc2>>
    /\ RecodeFrame

\* CScriptNum.encode of the number just decoded.
RecodeEncode ==
    /\ \/ /\ pc = "re_decoded"
          /\ num_enc' = encode(num_dec) /\ num_enc2' = num_enc2
          /\ pc' = "re_encoded"
       \/ /\ pc = "re_decoded_again"
          /\ num_enc2' = encode(num_n) /\ num_enc' = num_enc
          /\ pc' = "re_done"
    /\ UNCHANGED <<num_n, num_dec>>
    /\ RecodeFrame

NextRecode == RecodeDecode \/ RecodeEncode

SpecRecode == InitRecode /\ [][NextRecode]_vars

\* The integer a stack byte string stands for: the bytes after the prefix are
\* little-endian, the top bit of the last one is the sign.
SignMagnitudeValue(x) ==
    IF Len(x) <= 1 THEN 0
    ELSE LET last == x[Len(x)]
             mag == little_endian(SubSeq(x, 2, Len(x) - 1))
                    + (last % 128) * Pow2(8 * (Len(x) - 2))
         IN IF last >= 128 THEN 0 - mag ELSE mag

\* y is a minimal encoding: empty for zero, else a true length prefix and no
\* last byte that carries nothing but padding or a sign that fits below.
Minimal(y) ==
    \/ y = <<>>
    \/ /\ Len(y) >= 2 /\ y[1] = Len(y) - 1
       /\ \/ y[Len(y)] % 128 # 0
          \/ (Len(y) >= 3 /\ y[Len(y) - 1] >= 128)

\* C22: decoding any stack byte string x, minimal or not, and encoding the
\* result gives the minimal encoding of the integer x stands for, which is the
\* encoding of that integer from its value alone; decoding and encoding that
\* once more changes nothing.
C22_RecodeCanonical ==
    /\ pc \in {"re_encoded", "re_decoded_again", "re_done"} =>
          /\ num_enc = encode(SignMagnitudeValue(num_vch))
          /\ Minimal(num_enc)
          /\ SignMagnitudeValue(num_enc) = SignMagnitudeValue(num_vch)
    /\ pc = "re_done" => num_enc2 = num_enc

\* A padded negative zero becomes the empty string, and stays it.
C22_Witness ==
    /\ pc = "re_done" /\ num_vch = <<2, 0, 128>>
    /\ num_dec = 0 /\ num_enc = <<>> /\ num_enc2 = <<>>

-----------------------------------------------------------------------------
\* Specification SpecTerm: a CScript made of any bytes is either iterated to
\* its end or interpreted; the loop that was started keeps running.

\* Longest byte sequence iterated or interpreted here.
MaxTermLen == 3

InitTerm ==
    /\ pc = "new"
    /\ value \in {BytesValue(x) : x \in SeqsUpTo(ScriptBytes, MaxTermLen)}
    /\ script = <<>> /\ i = 0 /\ raw = <<>> /\ cooked = <<>>
    /\ err = "none" /\ errdata = <<>>
    /\ NumIdle /\ CondIdle /\ InterpIdle /\ SigopIdle /\ FadIdle

NextTerm == NextScript \/ NextInterp

SpecTerm == InitTerm /\ [][NextTerm]_vars /\ WF_vars(NextTerm)

\* C23: on every byte sequence the read position of raw_iter moves strictly
\* forward on every instruction yielded and never past the end of the script,
\* so at most len(script) instructions are yielded; raw iteration, cooked
\* iteration and interpret each come to an end, with a result or an error.
C23_Terminates ==
    /\ [][/\ i' >= i /\ i' <= Len(script')
          /\ Len(raw') <= i' /\ Len(cooked') = Len(raw')
          /\ Len(raw') > Len(raw) => (Len(raw') = Len(raw) + 1 /\ i' > i)
          /\ (pc \in {"iter", "interpret"} /\ pc' = pc) => Len(raw') > Len(raw)
         ]_vars
    /\ <>(pc = "done")

\* interpret came to its end after as many steps as the script has bytes.
C23_Witness ==
    /\ pc = "done" /\ result = "True"
    /\ script = <<OP_DUP, OP_DUP, OP_DUP>>
    /\ Len(raw) = 3 /\ i = 3

-----------------------------------------------------------------------------
\* C24: OP_SHA256 executed while active on a stack of at least one item
\* consumes that item: the stack does not grow, the items below the top stay,
\* and the item that was on top is no longer on top, the digest being there.
C24_Sha256ConsumesTop ==
    (ActiveCall(OP_SHA256) /\ Len(stack0) >= 1) =>
        /\ Len(stack) = Len(stack0)
        /\ Pop(stack) = Pop(stack0)
        /\ Top(stack) # Top(stack0)

-----------------------------------------------------------------------------
\* The bytes an instruction is written with: its opcode, the length bytes its
\* opcode calls for, and its payload.
SourceBytes(t) ==
    LET len == Len(t.data)
    IN IF ~t.hasdata THEN <<t.opcode>>
       ELSE IF t.opcode < OP_PUSHDATA1 THEN <<t.opcode>> \o t.data
       ELSE IF t.opcode = OP_PUSHDATA1 THEN <<t.opcode, len>> \o t.data
       ELSE IF t.opcode = OP_PUSHDATA2
            THEN <<t.opcode, len % 256, len \div 256>> \o t.data
       ELSE <<t.opcode, len % 256, (len \div 256) % 256, (len \div 65536) % 256,
              len \div 16777216>> \o t.data

\* Offset of the instruction after the k-th one yielded: the next offset
\* yielded, or the length of the script after the last.
NextOffset(k) == IF k < Len(raw) THEN raw[k + 1].sop_idx ELSE Len(script)

\* The spans script[offset : next offset] of the first k instructions, joined.
RECURSIVE JoinedSpans(_)
JoinedSpans(k) ==
    IF k = 0 THEN <<>>
    ELSE JoinedSpans(k - 1) \o Slice(script, raw[k].sop_idx, NextOffset(k))

\* C25: when a well-formed script has been walked by raw_iter to its end, the
\* offsets yielded start at 0 and increase strictly, the bytes from each offset
\* to the next (to the end of the script for the last) are exactly the source
\* bytes of that instruction, these spans joined in order are the script, and
\* every payload has the length its header declares.
C25_RawWalkPartition ==
    (pc = "done" /\ err = "none" /\ WellFormed(script)) =>
        /\ i = Len(script)
        /\ (script # <<>>) => (Len(raw) >= 1 /\ raw[1].sop_idx = 0)
        /\ \A k \in 1..Len(raw) :
              /\ raw[k].sop_idx < NextOffset(k)
              /\ NextOffset(k) <= Len(script)
              /\ Slice(script, raw[k].sop_idx, NextOffset(k)) = SourceBytes(raw[k])
              /\ raw[k].opcode = script[raw[k].sop_idx + 1]
              /\ raw[k].hasdata = (raw[k].opcode <= OP_PUSHDATA4)
              /\ raw[k].hasdata => Len(raw[k].data) = Declared(script, raw[k].sop_idx)
        /\ JoinedSpans(Len(raw)) = script

\* A one-byte push and an empty PUSHDATA1 push: spans [0, 2) and [2, 4).
C25_Witness ==
    /\ pc = "done" /\ err = "none"
    /\ script = <<1, 2, OP_PUSHDATA1, 0>>
    /\ Len(raw) = 2 /\ raw[1].sop_idx = 0 /\ raw[2].sop_idx = 2
    /\ raw[1].data = <<2>> /\ raw[2].data = <<>>

====
